---------------------------- MODULE Spec2Model ----------------------------
(***************************************************************************)
(* Model of the fitness tracker (app.py): the CSV record store, the       *)
(* weekly analysis, the recommendations, the summary statistics and the   *)
(* calorie prediction, driven by the script's run cycle                   *)
(*     initialize_file(); main()                                          *)
(* which the UI framework re-executes on every interaction.               *)
(*                                                                         *)
(* Text is a sequence of one-character strings, so that formatting and    *)
(* parsing of the CSV file are modelled by what they do.  Real numbers    *)
(* are exact rationals [num, den] in lowest terms, so floating-point      *)
(* rounding is not modelled; body temperature is kept in tenths of a      *)
(* degree.  The form's values are drawn from a set that includes the      *)
(* values the handler's own checks turn away.                             *)
(***************************************************************************)
EXTENDS Integers, Sequences, FiniteSets, TLC

VARIABLES
    file,   \* fitness_tracker.csv: [exists, rows]
    now,    \* the clock: [date, secs]
    pc,     \* "start" between two runs of the script, "page" inside main
    data,   \* main's data, the DataFrame loaded at the start of the run
    prev,   \* the file before the last step
    last    \* the last step taken and what it returned or displayed

vars == <<file, now, pc, data, prev, last>>

(***************************************************************************)
(* Bounds.                                                                 *)
(***************************************************************************)
\* Largest number of data rows the model lets the table grow to.
MaxRecords == 3

(***************************************************************************)
(* Text helpers.                                                           *)
(***************************************************************************)
Digits == <<"0", "1", "2", "3", "4", "5", "6", "7", "8", "9">>

DigitVal(c) == CHOOSE v \in 0..9 : Digits[v + 1] = c

\* str(n) for a non-negative integer
RECURSIVE IntToStr(_)
IntToStr(n) ==
    IF n < 10 THEN <<Digits[n + 1]>>
    ELSE Append(IntToStr(n \div 10), Digits[(n % 10) + 1])

\* int(text) for a text of decimal digits
RECURSIVE StrToInt(_)
StrToInt(s) ==
    IF Len(s) = 0 THEN 0
    ELSE 10 * StrToInt(SubSeq(s, 1, Len(s) - 1)) + DigitVal(s[Len(s)])

\* zero padding of strftime's %Y, %m and %d
RECURSIVE ZeroPad(_, _)
ZeroPad(s, width) == IF Len(s) >= width THEN s ELSE ZeroPad(<<"0">> \o s, width)

\* the printable ASCII characters in code point order, from 32 (space) on
\* (the grave accent, 96, cannot be written in a string and is spelled out)
Ascii ==
    <<
      " ", "!", "\"", "#", "$", "%", "&", "'", "(", ")", "*", "+",
      ",", "-", ".", "/", "0", "1", "2", "3", "4", "5", "6", "7",
      "8", "9", ":", ";", "<", "=", ">", "?", "@", "A", "B", "C",
      "D", "E", "F", "G", "H", "I", "J", "K", "L", "M", "N", "O",
      "P", "Q", "R", "S", "T", "U", "V", "W", "X", "Y", "Z", "[",
      "\\", "]", "^", "_", "grave", "a", "b", "c", "d", "e", "f", "g",
      "h", "i", "j", "k", "l", "m", "n", "o", "p", "q", "r", "s",
      "t", "u", "v", "w", "x", "y", "z", "{", "|", "}", "~"
    >>

\* ord(c)
Ord(c) ==
    IF c = "\t" THEN 9
    ELSE IF c = "\n" THEN 10
    ELSE IF c = "\r" THEN 13
    ELSE 31 + (CHOOSE i \in 1..Len(Ascii) : Ascii[i] = c)

\* Python's < on str: lexicographic by code point
RECURSIVE StrLess(_, _)
StrLess(a, b) ==
    IF Len(b) = 0 THEN FALSE
    ELSE IF Len(a) = 0 THEN TRUE
    ELSE IF a[1] = b[1] THEN StrLess(Tail(a), Tail(b))
    ELSE Ord(a[1]) < Ord(b[1])

Whitespace == {" ", "\t", "\n", "\r"}

RECURSIVE LStrip(_)
LStrip(s) ==
    IF Len(s) > 0 /\ s[1] \in Whitespace THEN LStrip(Tail(s)) ELSE s

RECURSIVE RStrip(_)
RStrip(s) ==
    IF Len(s) > 0 /\ s[Len(s)] \in Whitespace
    THEN RStrip(SubSeq(s, 1, Len(s) - 1)) ELSE s

\* str.strip()
strip(s) == RStrip(LStrip(s))

RECURSIVE Join(_, _)
Join(fields, sep) ==
    IF Len(fields) = 0 THEN <<>>
    ELSE IF Len(fields) = 1 THEN fields[1]
    ELSE fields[1] \o sep \o Join(Tail(fields), sep)

(***************************************************************************)
(* Calendar: a date is <<year, month, day>>.                               *)
(***************************************************************************)
IsLeap(y) == (y % 4 = 0 /\ y % 100 # 0) \/ y % 400 = 0

DaysBeforeMonth(y, m) ==
    <<0, 31, 59, 90, 120, 151, 181, 212, 243, 273, 304, 334>>[m]
    + (IF m > 2 /\ IsLeap(y) THEN 1 ELSE 0)

DayOfYear(d) == DaysBeforeMonth(d[1], d[2]) + d[3]

\* proleptic Gregorian ordinal, day 1 = 0001-01-01 (a Monday)
Ordinal(d) ==
    LET y == d[1] - 1
    IN  y * 365 + (y \div 4) - (y \div 100) + (y \div 400) + DayOfYear(d)

\* ISO weekday, Monday = 1 .. Sunday = 7
IsoWeekday(d) == ((Ordinal(d) - 1) % 7) + 1

Dec31Weekday(y) == (y + (y \div 4) - (y \div 100) + (y \div 400)) % 7

IsoWeeksInYear(y) ==
    IF Dec31Weekday(y) = 4 \/ Dec31Weekday(y - 1) = 3 THEN 53 ELSE 52

\* <<ISO year, ISO week>> of a date
IsoCalendar(d) ==
    LET w == (DayOfYear(d) - IsoWeekday(d) + 10) \div 7
    IN  IF w < 1 THEN <<d[1] - 1, IsoWeeksInYear(d[1] - 1)>>
        ELSE IF w > IsoWeeksInYear(d[1]) THEN <<d[1] + 1, 1>>
        ELSE <<d[1], w>>

\* Series.dt.isocalendar().week
IsoWeek(d) == IsoCalendar(d)[2]

\* date.strftime("%Y-%m-%d")
strftime(d) ==
    ZeroPad(IntToStr(d[1]), 4) \o <<"-">> \o ZeroPad(IntToStr(d[2]), 2)
        \o <<"-">> \o ZeroPad(IntToStr(d[3]), 2)

\* pd.to_datetime of a YYYY-MM-DD text: the date, at midnight
to_datetime(s) ==
    <<StrToInt(SubSeq(s, 1, 4)), StrToInt(SubSeq(s, 6, 7)), StrToInt(SubSeq(s, 9, 10))>>

(***************************************************************************)
(* CSV text: csv.writer (QUOTE_MINIMAL, doubled quotes) and the tokenizer  *)
(* of pd.read_csv.  The file is the sequence of the records written, each  *)
(* without its \r\n terminator.                                            *)
(***************************************************************************)
SpecialChars == {",", "\"", "\r", "\n"}

NeedsQuote(s) == \E i \in 1..Len(s) : s[i] \in SpecialChars

RECURSIVE EscapeQuotes(_)
EscapeQuotes(s) ==
    IF Len(s) = 0 THEN <<>>
    ELSE (IF s[1] = "\"" THEN <<"\"", "\"">> ELSE <<s[1]>>) \o EscapeQuotes(Tail(s))

QuoteField(s) ==
    IF NeedsQuote(s) THEN <<"\"">> \o EscapeQuotes(s) \o <<"\"">> ELSE s

\* csv.writer(file).writerow(fields): one line of text
writerow(fields) ==
    Join([i \in 1..Len(fields) |-> QuoteField(fields[i])], <<",">>)

\* the number of quote characters before position i of a line
QuotesBefore(s, i) == Cardinality({j \in 1..(i - 1) : s[j] = "\""})

\* the positions of the delimiters of a line: the commas outside quotes
Delimiters(s) ==
    {i \in 1..Len(s) : s[i] = "," /\ QuotesBefore(s, i) % 2 = 0}

RECURSIVE UnescapeQuotes(_)
UnescapeQuotes(s) ==
    IF Len(s) = 0 THEN <<>>
    ELSE IF s[1] = "\"" /\ Len(s) > 1 /\ s[2] = "\""
         THEN <<"\"">> \o UnescapeQuotes(SubSeq(s, 3, Len(s)))
         ELSE <<s[1]>> \o UnescapeQuotes(Tail(s))

Unquote(s) ==
    IF Len(s) >= 2 /\ s[1] = "\"" /\ s[Len(s)] = "\""
    THEN UnescapeQuotes(SubSeq(s, 2, Len(s) - 1)) ELSE s

\* a finite set of integers in ascending order
SortedInts(S) ==
    [k \in 1..Cardinality(S) |->
        CHOOSE x \in S : Cardinality({y \in S : y < x}) = k - 1]

\* the fields of one line, as the tokenizer of pd.read_csv splits it
ParseLine(s) ==
    LET cuts == <<0>> \o SortedInts(Delimiters(s)) \o <<Len(s) + 1>>
    IN  [k \in 1..(Len(cuts) - 1) |->
            Unquote(SubSeq(s, cuts[k] + 1, cuts[k + 1] - 1))]

\* the texts pd.read_csv reads as a missing value (keep_default_na=True)
NaValues ==
    { <<>>, <<"N", "A">>, <<"N", "/", "A">>, <<"N", "U", "L", "L">>,
      <<"N", "a", "N">>, <<"N", "o", "n", "e">>, <<"n", "/", "a">>,
      <<"n", "a", "n">>, <<"n", "u", "l", "l">>, <<"#", "N", "/", "A">>,
      <<"#", "N", "A">>, <<"<", "N", "A", ">">>, <<"-", "N", "a", "N">>,
      <<"-", "n", "a", "n">>, <<"#", "N", "/", "A", " ", "N", "/", "A">>,
      <<"-", "1", ".", "#", "I", "N", "D">>,
      <<"-", "1", ".", "#", "Q", "N", "A", "N">>,
      <<"1", ".", "#", "I", "N", "D">>, <<"1", ".", "#", "Q", "N", "A", "N">> }

\* the missing value of a DataFrame cell
NaN == <<"NaN">>

\* a cell of a text column
ParseText(s) == IF s \in NaValues THEN NaN ELSE s

\* a cell of an integer column
ParseInt(s) == IF s \in NaValues THEN NaN ELSE StrToInt(s)

\* str(x) of a float with one decimal, x given in tenths
FloatToStr(t) == IntToStr(t \div 10) \o <<".">> \o IntToStr(t % 10)

\* a cell of a float column, in tenths
ParseFloat(s) ==
    IF s \in NaValues THEN NaN
    ELSE LET dot == CHOOSE i \in 1..Len(s) : s[i] = "."
         IN  10 * StrToInt(SubSeq(s, 1, dot - 1)) + StrToInt(SubSeq(s, dot + 1, Len(s)))

(***************************************************************************)
(* Record store.  file is [exists, rows]: whether fitness_tracker.csv      *)
(* exists, and its lines.                                                  *)
(***************************************************************************)
ColDate == <<"D", "a", "t", "e">>
ColWorkoutType == <<"W", "o", "r", "k", "o", "u", "t", " ", "T", "y", "p", "e">>
ColDuration == <<"D", "u", "r", "a", "t", "i", "o", "n", " ", "(", "m", "i", "n", "s", ")">>
ColCalories == <<"C", "a", "l", "o", "r", "i", "e", "s", " ", "B", "u", "r", "n", "e", "d">>
ColAge == <<"A", "g", "e">>
ColGender == <<"G", "e", "n", "d", "e", "r">>
ColHeartRate == <<"H", "e", "a", "r", "t", " ", "R", "a", "t", "e">>
ColBodyTemp == <<"B", "o", "d", "y", " ", "T", "e", "m", "p", "e", "r", "a", "t", "u", "r", "e">>

Header ==
    <<ColDate, ColWorkoutType, ColDuration, ColCalories,
      ColAge, ColGender, ColHeartRate, ColBodyTemp>>

NoFile == [exists |-> FALSE, rows |-> <<>>]

\* initialize_file opening the file with 'w': an existing table is truncated
initialize_file_truncating(f) ==
    [exists |-> TRUE, rows |-> <<writerow(Header)>>]

\* open(FILENAME, 'x') and one writerow; FileExistsError is swallowed
initialize_file(f) ==
    IF f.exists THEN f
    ELSE [exists |-> TRUE, rows |-> <<writerow(Header)>>]

\* log_workout testing the type without strip(): blanks pass
log_workout_unstripped(f, today, workout_type, duration, calories, age, gender, heart_rate, body_temp) ==
    IF workout_type = <<>> THEN [ret |-> FALSE, file |-> f]
    ELSE [ret |-> TRUE,
          file |-> [exists |-> TRUE,
                    rows |-> Append(f.rows,
                        writerow(<<strftime(today), workout_type, IntToStr(duration),
                                   IntToStr(calories), IntToStr(age), gender,
                                   IntToStr(heart_rate), FloatToStr(body_temp)>>))]]

\* log_workout rewriting the table: the header and the new row only
log_workout_rewriting(f, today, workout_type, duration, calories, age, gender, heart_rate, body_temp) ==
    IF strip(workout_type) = <<>> THEN [ret |-> FALSE, file |-> f]
    ELSE [ret |-> TRUE,
          file |-> [exists |-> TRUE,
                    rows |-> <<writerow(Header),
                        writerow(<<strftime(today), workout_type, IntToStr(duration),
                                   IntToStr(calories), IntToStr(age), gender,
                                   IntToStr(heart_rate), FloatToStr(body_temp)>>)>>]]

\* log_workout: [ret, file], the value returned and the file afterwards;
\* today is datetime.date.today()
log_workout(f, today, workout_type, duration, calories, age, gender, heart_rate, body_temp) ==
    IF strip(workout_type) = <<>> THEN [ret |-> FALSE, file |-> f]
    ELSE [ret |-> TRUE,
          file |-> [exists |-> TRUE,
                    rows |-> Append(f.rows,
                        writerow(<<strftime(today), workout_type, IntToStr(duration),
                                   IntToStr(calories), IntToStr(age), gender,
                                   IntToStr(heart_rate), FloatToStr(body_temp)>>))]]

\* load_data: the DataFrame, a sequence of rows in file order; the columns
\* are found by the names of the header line
load_data(f) ==
    IF ~f.exists THEN <<>>
    ELSE LET header == ParseLine(f.rows[1])
             col(name) == CHOOSE i \in 1..Len(header) : header[i] = name
             date == col(ColDate)
             workout_type == col(ColWorkoutType)
             duration == col(ColDuration)
             calories == col(ColCalories)
             age == col(ColAge)
             gender == col(ColGender)
             heart_rate == col(ColHeartRate)
             body_temp == col(ColBodyTemp)
             row(line) ==
                 LET cells == ParseLine(line)
                 IN  [Date |-> to_datetime(cells[date]),
                      WorkoutType |-> ParseText(cells[workout_type]),
                      Duration |-> ParseInt(cells[duration]),
                      Calories |-> ParseInt(cells[calories]),
                      Age |-> ParseInt(cells[age]),
                      Gender |-> ParseText(cells[gender]),
                      HeartRate |-> ParseInt(cells[heart_rate]),
                      BodyTemp |-> ParseFloat(cells[body_temp])]
         IN  [r \in 1..(Len(f.rows) - 1) |-> row(f.rows[r + 1])]

(***************************************************************************)
(* Exact arithmetic for the real-valued results: [num, den], den > 0, in   *)
(* lowest terms.  Inf is the result of a division by zero.                 *)
(***************************************************************************)
Abs(x) == IF x < 0 THEN -x ELSE x

RECURSIVE Gcd(_, _)
Gcd(a, b) == IF b = 0 THEN a ELSE Gcd(b, a % b)

Frac(n, d) ==
    LET g == Gcd(Abs(n), Abs(d))
        sgn == IF d < 0 THEN -1 ELSE 1
    IN  [num |-> sgn * (n \div g), den |-> sgn * (d \div g)]

Inf == [num |-> 1, den |-> 0]

FromInt(n) == [num |-> n, den |-> 1]

FAdd(a, b) ==
    IF a = Inf \/ b = Inf THEN Inf
    ELSE LET g == Gcd(a.den, b.den)
         IN  Frac(a.num * (b.den \div g) + b.num * (a.den \div g),
                  (a.den \div g) * b.den)

FMul(a, b) ==
    IF a = Inf \/ b = Inf THEN Inf
    ELSE LET x == Frac(a.num, b.den)
             y == Frac(b.num, a.den)
         IN  [num |-> x.num * y.num, den |-> x.den * y.den]

\* a / b for integers
Ratio(a, b) == IF b = 0 THEN Inf ELSE Frac(a, b)

FLess(a, b) ==
    IF a = Inf THEN FALSE
    ELSE IF b = Inf THEN TRUE
    ELSE a.num * b.den < b.num * a.den

RECURSIVE Sum(_)
Sum(xs) == IF Len(xs) = 0 THEN 0 ELSE xs[1] + Sum(Tail(xs))

RECURSIVE FSum(_)
FSum(xs) == IF Len(xs) = 0 THEN FromInt(0) ELSE FAdd(xs[1], FSum(Tail(xs)))

\* Series.mean() of integers
Mean(xs) == Ratio(Sum(xs), Len(xs))

\* Series.mean() of reals
FMean(xs) == FMul(FSum(xs), Frac(1, Len(xs)))

Column(df, name) == [i \in 1..Len(df) |-> df[i][name]]

None == [none |-> TRUE]

(***************************************************************************)
(* LinearRegression on one feature: ordinary least squares on centred      *)
(* data; a constant feature gives the minimum-norm solution, slope 0.      *)
(***************************************************************************)
LinearRegressionFit(X, y) ==
    LET n == Len(X)
        Sx == Sum(X)
        Sy == Sum(y)
        Sxx == Sum([i \in 1..n |-> X[i] * X[i]])
        Sxy == Sum([i \in 1..n |-> X[i] * y[i]])
        D == n * Sxx - Sx * Sx
        coef == IF D = 0 THEN FromInt(0) ELSE Frac(n * Sxy - Sx * Sy, D)
    IN  [coef |-> coef,
         intercept |-> FMul(FAdd(FromInt(Sy), FMul(coef, FromInt(-Sx))), Frac(1, n))]

\* model.predict([[x]])[0]
Predict(model, x) == FAdd(model.intercept, FMul(model.coef, FromInt(x)))

\* train_model asking for one record only
train_model_one(df) ==
    IF Len(df) < 1 THEN None
    ELSE LinearRegressionFit(Column(df, "Duration"), Column(df, "Calories"))

\* train_model: the model (X, the second value, is never used)
train_model(df) ==
    IF Len(df) < 2 THEN None
    ELSE LinearRegressionFit(Column(df, "Duration"), Column(df, "Calories"))

(***************************************************************************)
(* Weekly analysis.                                                        *)
(***************************************************************************)
\* data.groupby('Week').agg(sum, sum, count).reset_index(): one row per value
\* of the Week column, ascending; count counts the cells that are not missing
weekly_stats(df) ==
    LET Week == [i \in 1..Len(df) |-> IsoWeek(df[i].Date)]
        keys == SortedInts({Week[i] : i \in 1..Len(df)})
        of(w, name) ==
            Sum([i \in 1..Len(df) |-> IF Week[i] = w THEN df[i][name] ELSE 0])
    IN  [k \in 1..Len(keys) |->
            [Week |-> keys[k],
             Calories |-> of(keys[k], "Calories"),
             Duration |-> of(keys[k], "Duration"),
             WorkoutType |->
                 Cardinality({i \in 1..Len(df) :
                     Week[i] = keys[k] /\ df[i].WorkoutType # NaN})]]

\* analyze_fitness_data: None, or [model, X, avg_efficiency]
analyze_fitness_data(df) ==
    IF Len(df) < 2 THEN None
    ELSE LET weekly == weekly_stats(df)
             X == Column(weekly, "Duration")
             efficiency ==
                 [i \in 1..Len(df) |-> Ratio(df[i].Calories, df[i].Duration)]
         IN  [model |-> LinearRegressionFit(X, Column(weekly, "Calories")),
              X |-> X,
              avg_efficiency |-> FMean(efficiency)]

(***************************************************************************)
(* Recommendations.  A timestamp is [date, secs]: a date and the seconds   *)
(* since its midnight.                                                     *)
(***************************************************************************)
WindowDays == 7

\* a >= b, for a a date at midnight and b the timestamp ts less a number of days
DateGeqMinusDays(a, ts, days) ==
    \/ Ordinal(a) > Ordinal(ts.date) - days
    \/ Ordinal(a) = Ordinal(ts.date) - days /\ 0 >= ts.secs

FrequencyAdvice == "Consider increasing workout frequency to at least 3 times per week"

EfficiencyAdvice == "Try incorporating high-intensity intervals to improve workout efficiency"

\* ts is pd.Timestamp.now()
get_personalized_recommendations(df, efficiency, ts) ==
    IF Len(df) = 0 THEN <<>>
    ELSE LET weekly_workouts ==
                 Cardinality({i \in 1..Len(df) :
                     DateGeqMinusDays(df[i].Date, ts, WindowDays)})
             ratio_of_means ==
                 Ratio(Sum(Column(df, "Calories")), Sum(Column(df, "Duration")))
         IN  (IF weekly_workouts < 3 THEN <<FrequencyAdvice>> ELSE <<>>)
             \o (IF FLess(efficiency, ratio_of_means) THEN <<EfficiencyAdvice>> ELSE <<>>)

(***************************************************************************)
(* Summary statistics.                                                     *)
(***************************************************************************)
IndexError == <<"IndexError">>

\* mode() giving the most frequent values in the order they first occur
mode_first_seen(xs) ==
    LET present == {xs[i] : i \in 1..Len(xs)} \ {NaN}
        count(v) == Cardinality({i \in 1..Len(xs) : xs[i] = v})
        modes == {v \in present : \A w \in present : count(w) <= count(v)}
        first(v) == CHOOSE i \in 1..Len(xs) : xs[i] = v /\ \A j \in 1..(i - 1) : xs[j] # v
    IN  [k \in 1..Cardinality(modes) |->
            CHOOSE v \in modes : Cardinality({w \in modes : first(w) < first(v)}) = k - 1]

\* Series.mode(): the values that are not missing and occur most often, in
\* sorted order
mode(xs) ==
    LET present == {xs[i] : i \in 1..Len(xs)} \ {NaN}
        count(v) == Cardinality({i \in 1..Len(xs) : xs[i] = v})
        modes == {v \in present : \A w \in present : count(w) <= count(v)}
    IN  [k \in 1..Cardinality(modes) |->
            CHOOSE v \in modes : Cardinality({w \in modes : StrLess(w, v)}) = k - 1]

\* .iloc[0]
iloc0(xs) == IF Len(xs) = 0 THEN IndexError ELSE xs[1]

\* the four metrics of create_workout_stats; None when there is no data,
\* [raised] when .iloc[0] raises
create_workout_stats(df) ==
    IF Len(df) = 0 THEN None
    ELSE LET most_common_workout == iloc0(mode(Column(df, "WorkoutType")))
         IN  IF most_common_workout = IndexError THEN [raised |-> IndexError]
             ELSE [total_workouts |-> Len(df),
                   total_calories |-> Sum(Column(df, "Calories")),
                   avg_duration |-> Mean(Column(df, "Duration")),
                   most_common_workout |-> most_common_workout]

\* the four metrics of the overview tab of the history page
history_overview(df) ==
    IF Len(df) = 0 THEN None
    ELSE LET most_popular == iloc0(mode(Column(df, "WorkoutType")))
         IN  IF most_popular = IndexError THEN [raised |-> IndexError]
             ELSE [total_workouts |-> Len(df),
                   most_popular |-> most_popular,
                   total_calories |-> Sum(Column(df, "Calories")),
                   avg_duration |-> Mean(Column(df, "Duration"))]

(***************************************************************************)
(* Prediction with the fixed adjustments.                                  *)
(***************************************************************************)
Male == <<"M", "a", "l", "e">>

Female == <<"F", "e", "m", "a", "l", "e">>

\* the adjusted prediction with the heart rate threshold included
predicted_calories_geq(model, duration, gender, heart_rate, bmi) ==
    LET base == Predict(model, duration)
        a == IF gender = Male THEN FMul(base, Frac(120, 100)) ELSE base
        b == IF heart_rate >= 120 THEN FMul(a, Frac(115, 100)) ELSE a
        c == IF bmi > 25 THEN FMul(b, Frac(90, 100)) ELSE b
    IN  c

\* lines 334-344 of main: the adjusted prediction
predicted_calories(model, duration, gender, heart_rate, bmi) ==
    LET base == Predict(model, duration)
        a == IF gender = Male THEN FMul(base, Frac(120, 100)) ELSE base
        b == IF heart_rate > 120 THEN FMul(a, Frac(115, 100)) ELSE a
        c == IF bmi > 25 THEN FMul(b, Frac(90, 100)) ELSE b
    IN  c

(***************************************************************************)
(* Inputs.                                                                 *)
(***************************************************************************)
Yoga == <<"Y", "o", "g", "a", "/", "S", "t", "r", "e", "t", "c", "h", "i", "n", "g">>

Cycling == <<"C", "y", "c", "l", "i", "n", "g">>

RunJog == <<"R", "u", "n", ",", " ", "j", "o", "g">>

TypeNA == <<"N", "A">>

Blank == <<" ", "\t">>

Form(t, d, c, a, g, h, b) ==
    [workout_type |-> t, duration |-> d, calories |-> c, age |-> a,
     gender |-> g, heart_rate |-> h, body_temp |-> b]

\* the forms that can be submitted: four well-formed ones, and one for each
\* way of being rejected
Submissions ==
    { Form(Yoga, 30, 150, 28, Female, 110, 368),
      Form(Cycling, 10, 100, 35, Male, 130, 370),
      Form(RunJog, 20, 180, 41, Male, 125, 375),
      Form(TypeNA, 20, 180, 28, Female, 120, 372),
      Form(Blank, 30, 150, 28, Female, 110, 368),
      Form(<<>>, 30, 150, 28, Female, 110, 368),
      Form(Yoga, 0, 150, 28, Female, 110, 368),
      Form(Yoga, 30, 0, 28, Female, 110, 368),
      Form(Yoga, 30, 150, 0, Female, 110, 368),
      Form(Yoga, 30, 150, 28, Female, 0, 368) }

\* the inputs of the prediction page
PredictDurations == {15}

PredictHeartRates == {120, 130}

PredictBmis == {25, 30}

\* the instants of the clock: the Mondays of ISO weeks 2025-W02, 2025-W03 and
\* 2026-W02 at midnight, and the second of them at noon as well
Instants ==
    { [date |-> <<2025, 1, 6>>, secs |-> 0],
      [date |-> <<2025, 1, 13>>, secs |-> 0],
      [date |-> <<2025, 1, 13>>, secs |-> 43200],
      [date |-> <<2026, 1, 5>>, secs |-> 0] }

Later(a, b) ==
    \/ Ordinal(a.date) > Ordinal(b.date)
    \/ a.date = b.date /\ a.secs > b.secs

(***************************************************************************)
(* The program: each run of the script is initialize_file() and then       *)
(* main(), which loads the data and renders the page chosen.               *)
(***************************************************************************)
NumRecords(f) == IF f.exists THEN Len(f.rows) - 1 ELSE 0

Init ==
    /\ file = NoFile
    /\ now = [date |-> <<2025, 1, 6>>, secs |-> 0]
    /\ pc = "start"
    /\ data = <<>>
    /\ prev = NoFile
    /\ last = [op |-> "start"]

\* time passes between two runs of the script
Tick ==
    /\ pc = "start"
    /\ \E t \in Instants : Later(t, now) /\ now' = t
    /\ prev' = file
    /\ last' = [op |-> "tick"]
    /\ UNCHANGED <<file, pc, data>>

\* a run of the script begins: initialize_file(), then main's
\* data = load_data()
ScriptStart ==
    /\ pc = "start"
    /\ file' = initialize_file(file)
    /\ data' = load_data(file')
    /\ pc' = "page"
    /\ prev' = file
    /\ last' = [op |-> "initialize"]
    /\ UNCHANGED now

\* the check of the form without duration > 0
FormValid_no_duration(sub) ==
    /\ Len(sub.workout_type) > 0
    /\ sub.calories > 0
    /\ sub.age > 0
    /\ sub.heart_rate > 0

\* line 247: all([workout_type, duration > 0, calories > 0, age > 0, heart_rate > 0])
FormValid(sub) ==
    /\ Len(sub.workout_type) > 0
    /\ sub.duration > 0
    /\ sub.calories > 0
    /\ sub.age > 0
    /\ sub.heart_rate > 0

\* main, "Log Workout", the form rendered and not submitted
LogWorkoutPage ==
    /\ pc = "page"
    /\ pc' = "start"
    /\ prev' = file
    /\ last' = [op |-> "log", submitted |-> FALSE]
    /\ UNCHANGED <<file, now, data>>

\* main, "Log Workout", the form submitted
SubmitWorkout ==
    /\ pc = "page"
    /\ NumRecords(file) < MaxRecords
    /\ \E sub \in Submissions :
        IF FormValid(sub)
        THEN LET r == log_workout(file, now.date, sub.workout_type, sub.duration,
                                  sub.calories, sub.age, sub.gender,
                                  sub.heart_rate, sub.body_temp)
             IN  /\ file' = r.file
                 /\ last' = [op |-> "log", submitted |-> TRUE, form |-> sub,
                             called |-> TRUE, ret |-> r.ret]
        ELSE /\ file' = file
             /\ last' = [op |-> "log", submitted |-> TRUE, form |-> sub,
                         called |-> FALSE, ret |-> FALSE]
    /\ pc' = "start"
    /\ prev' = file
    /\ UNCHANGED <<now, data>>

\* main, "Dashboard": the statistics, then the analysis and the advice;
\* insights tells whether the advice was computed (an IndexError in the
\* statistics ends the run before)
Dashboard ==
    /\ pc = "page"
    /\ LET stats == create_workout_stats(data)
           analysis == analyze_fitness_data(data)
       IN  last' =
             IF stats # None /\ "raised" \in DOMAIN stats
             THEN [op |-> "dashboard", stats |-> stats, insights |-> FALSE,
                   recommendations |-> <<>>]
             ELSE IF Len(data) > 0 /\ analysis # None
             THEN [op |-> "dashboard", stats |-> stats, insights |-> TRUE,
                   recommendations |->
                       get_personalized_recommendations(data, analysis.avg_efficiency, now)]
             ELSE [op |-> "dashboard", stats |-> stats, insights |-> FALSE,
                   recommendations |-> <<>>]
    /\ pc' = "start"
    /\ prev' = file
    /\ UNCHANGED <<file, now, data>>

\* main, "Workout History": the overview metrics
History ==
    /\ pc = "page"
    /\ last' = [op |-> "history", overview |-> history_overview(data)]
    /\ pc' = "start"
    /\ prev' = file
    /\ UNCHANGED <<file, now, data>>

\* main, "Predictions"
Predictions ==
    /\ pc = "page"
    /\ LET model == train_model(data)
       IN  \E duration \in PredictDurations, gender \in {Male, Female},
              heart_rate \in PredictHeartRates, bmi \in PredictBmis :
              last' = [op |-> "predict", duration |-> duration, gender |-> gender,
                       heart_rate |-> heart_rate, bmi |-> bmi,
                       predicted |->
                           IF model # None
                           THEN predicted_calories(model, duration, gender, heart_rate, bmi)
                           ELSE None]
    /\ pc' = "start"
    /\ prev' = file
    /\ UNCHANGED <<file, now, data>>

Next ==
    \/ Tick
    \/ ScriptStart
    \/ LogWorkoutPage
    \/ SubmitWorkout
    \/ Dashboard
    \/ History
    \/ Predictions

Spec == Init /\ [][Next]_vars

(***************************************************************************)
(* Properties.                                                             *)
(***************************************************************************)
IsPrefix(a, b) == Len(a) <= Len(b) /\ SubSeq(b, 1, Len(a)) = a

Range(xs) == {xs[i] : i \in 1..Len(xs)}

Submitted == last.op = "log" /\ last.submitted

Logged == Submitted /\ last.called /\ last.ret

IsBlank(t) == strip(t) = <<>>

\* C1: logWorkout with an empty or whitespace-only type returns the failure
\* result and leaves the table as it was: no row added, removed or changed,
\* and no file created.  Stated of the call made by the form handler, and of
\* log_workout applied to the table of every reachable state.
C1_BlankTypeRejected ==
    /\ (Submitted /\ IsBlank(last.form.workout_type)) => (~last.ret /\ file = prev)
    /\ \A sub \in Submissions :
          IsBlank(sub.workout_type) =>
              log_workout(file, now.date, sub.workout_type, sub.duration,
                          sub.calories, sub.age, sub.gender, sub.heart_rate,
                          sub.body_temp) = [ret |-> FALSE, file |-> file]

\* log_workout was called with a whitespace-only type on a table with records
C1_Witness ==
    /\ Submitted
    /\ last.called
    /\ last.form.workout_type = Blank
    /\ NumRecords(file) >= 1

\* the record a form logged on a day is expected to load back as
Expected(sub, day) ==
    [Date |-> day, WorkoutType |-> sub.workout_type, Duration |-> sub.duration,
     Calories |-> sub.calories, Age |-> sub.age, Gender |-> sub.gender,
     HeartRate |-> sub.heart_rate, BodyTemp |-> sub.body_temp]

\* C2: after a successful logWorkout, loadAll returns a RecordSet whose last
\* element carries exactly the logged type, duration, calories, age, gender,
\* heart rate and body temperature with today's date; from a header-only
\* table that RecordSet has exactly one record.
C2_RoundTrip ==
    Logged =>
        LET records == load_data(file)
        IN  /\ Len(records) >= 1
            /\ records[Len(records)] = Expected(last.form, now.date)
            /\ (prev.exists /\ NumRecords(prev) = 0) => Len(records) = 1

\* C3: initialize creates a table holding only the header row when there is
\* none, and leaves an existing table, with any number of records, unchanged;
\* initializing again changes nothing.
C3_InitializeIdempotent ==
    /\ last.op = "initialize" =>
          IF prev.exists THEN file = prev
          ELSE /\ file.exists
               /\ Len(file.rows) = 1
               /\ ParseLine(file.rows[1]) = Header
    /\ initialize_file(initialize_file(file)) = initialize_file(file)

\* initialize ran on a table that held two records or more
C3_Witness ==
    /\ last.op = "initialize"
    /\ prev.exists
    /\ NumRecords(prev) >= 2

\* C4: fit on 0 or 1 records gives no model, fit on 2 or more gives one, and
\* the prediction page computes a prediction exactly when the store holds 2
\* records or more.
C4_FitNeedsTwoRecords ==
    /\ train_model(data) = None <=> Len(data) < 2
    /\ last.op = "predict" => (last.predicted = None <=> NumRecords(file) < 2)

\* the prediction page ran on a store of exactly one record
C4_Witness ==
    /\ last.op = "predict"
    /\ NumRecords(file) = 1
    /\ last.predicted = None

\* the factor the claim gives for a gender, heart rate and bmi, in millionths
ClaimedFactor(gender, heart_rate, bmi) ==
    (IF gender = Male THEN 120 ELSE 100)
    * (IF heart_rate > 120 THEN 115 ELSE 100)
    * (IF bmi > 25 THEN 90 ELSE 100)

\* C5: the adjusted prediction is the base prediction times 1.2 exactly when
\* gender is Male, times 1.15 exactly when the heart rate is above 120, times
\* 0.9 exactly when bmi is above 25, compounded; Male, 130, 30 gives
\* base x 1.2 x 1.15 x 0.9 and Female, 120, 25 gives the base.
C5_Adjustments ==
    (last.op = "predict" /\ last.predicted # None) =>
        LET base == Predict(train_model(data), last.duration)
        IN  /\ last.predicted =
                  FMul(base, Frac(ClaimedFactor(last.gender, last.heart_rate, last.bmi),
                                  1000000))
            /\ (last.gender = Male /\ last.heart_rate = 130 /\ last.bmi = 30) =>
                  last.predicted = FMul(base, Frac(1242, 1000))
            /\ (last.gender = Female /\ last.heart_rate = 120 /\ last.bmi = 25) =>
                  last.predicted = base

\* a prediction was made for Male, 130 bpm, bmi 30
C5_Witness ==
    /\ last.op = "predict"
    /\ last.predicted # None
    /\ last.gender = Male
    /\ last.heart_rate = 130
    /\ last.bmi = 30

AllTypesPresent(df) == \A i \in 1..Len(df) : df[i].WorkoutType # NaN

\* C6: the weekly rollup has one bucket per distinct ISO calendar week (year
\* and week) holding a record and no other bucket, and each bucket's calories,
\* duration and count cover exactly the records of that week.  Stated where
\* the analysis computes the rollup, on tables whose types all load back.
C6_OneBucketPerIsoWeek ==
    (last.op = "dashboard" /\ Len(data) >= 2 /\ AllTypesPresent(data)) =>
        LET buckets == weekly_stats(data)
            weeks == {IsoCalendar(data[i].Date) : i \in 1..Len(data)}
            members(w) == {i \in 1..Len(data) : IsoCalendar(data[i].Date) = w}
            total(w, name) ==
                Sum([i \in 1..Len(data) |-> IF i \in members(w) THEN data[i][name] ELSE 0])
        IN  /\ Len(buckets) = Cardinality(weeks)
            /\ \A w \in weeks :
                  \E k \in 1..Len(buckets) :
                      /\ buckets[k].Week = w[2]
                      /\ buckets[k].Calories = total(w, "Calories")
                      /\ buckets[k].Duration = total(w, "Duration")
                      /\ buckets[k].WorkoutType = Cardinality(members(w))

\* the modal type a page displayed
Displayed ==
    IF last.op = "history" THEN last.overview.most_popular
    ELSE last.stats.most_common_workout

ModalTypeDisplayed ==
    \/ /\ last.op = "history"
       /\ last.overview # None
       /\ "most_popular" \in DOMAIN last.overview
    \/ /\ last.op = "dashboard"
       /\ last.stats # None
       /\ "most_common_workout" \in DOMAIN last.stats

Occurrences(df, t) == Cardinality({i \in 1..Len(df) : df[i].WorkoutType = t})

FirstIndex(df, t) == CHOOSE i \in 1..Len(df) :
    df[i].WorkoutType = t /\ \A j \in 1..(i - 1) : df[j].WorkoutType # t

\* the types of a RecordSet that occur most often among those present
MostFrequent(df) ==
    LET present == {df[i].WorkoutType : i \in 1..Len(df)} \ {NaN}
    IN  {t \in present : \A u \in present : Occurrences(df, u) <= Occurrences(df, t)}

\* C7, as stated: the modal type reported has the maximum number of
\* occurrences and, among the types sharing it, the earliest first occurrence.
\* Stated on RecordSets whose types all load back.
C7_TieFirstEncountered ==
    (ModalTypeDisplayed /\ AllTypesPresent(data)) =>
        /\ Displayed \in MostFrequent(data)
        /\ \A t \in MostFrequent(data) :
              FirstIndex(data, Displayed) <= FirstIndex(data, t)

\* C7, amended: on a RecordSet with at least one type present, the modal type
\* reported has the maximum number of occurrences among the types present and,
\* among the types sharing it, is the least in code point order.
C7_TieLeastInOrder ==
    /\ ModalTypeDisplayed =>
          /\ Displayed \in MostFrequent(data)
          /\ \A t \in MostFrequent(data) : ~StrLess(t, Displayed)
    /\ (last.op \in {"history", "dashboard"} /\ MostFrequent(data) # {}) =>
          ModalTypeDisplayed

\* the history page reported a modal type that is not the first encountered
\* of the types tied for the maximum
C7_Witness ==
    /\ last.op = "history"
    /\ ModalTypeDisplayed
    /\ Cardinality(MostFrequent(data)) >= 2
    /\ \E t \in MostFrequent(data) :
          FirstIndex(data, t) < FirstIndex(data, Displayed)

\* the records whose calendar date lies in [today - WindowDays, today]
InClosedWindow(df, today) ==
    {i \in 1..Len(df) :
        /\ Ordinal(today) - WindowDays <= Ordinal(df[i].Date)
        /\ Ordinal(df[i].Date) <= Ordinal(today)}

\* C8: recommend emits the frequency advisory if and only if fewer than 3
\* records have their calendar date in the closed window [now - 7 days, now],
\* a record dated exactly 7 days before now being counted.
C8_ClosedWindow ==
    (last.op = "dashboard" /\ last.insights) =>
        (FrequencyAdvice \in Range(last.recommendations)
            <=> Cardinality(InClosedWindow(data, now.date)) < 3)

\* C9: the table is append-only: every step keeps every persisted row, with
\* its field values and at its position; the record count grows by exactly
\* one, at the end, on a successful logWorkout and by zero on any other step.
C9_AppendOnly ==
    [][ /\ IsPrefix(file.rows, file'.rows)
        /\ file' # file => IsPrefix(load_data(file), load_data(file'))
        /\ NumRecords(file') = NumRecords(file)
              + (IF last'.op = "log" /\ last'.submitted /\ last'.called /\ last'.ret
                 THEN 1 ELSE 0) ]_vars

\* a successful logWorkout appended the third record
C9_Witness ==
    /\ Logged
    /\ NumRecords(prev) = 2
    /\ NumRecords(file) = 3

=============================================================================
